---- MODULE Spec2Model ----
(***************************************************************************)
(* Model of the anomaly-detection engine of replicated-logs-perf-meter     *)
(* (src/outliers.py): create_dataframe, the ZScore and ModifiedZScore      *)
(* scorers, chow_test, check_last_run and sequence_chow_test.              *)
(*                                                                         *)
(* Numbers.  numpy float64 values are modelled as exact extended rationals *)
(* n/d with d >= 0: d > 0 is a finite value in lowest terms, 1/0 is +inf,  *)
(* -1/0 is -inf and 0/0 is nan, so that a division by zero yields what     *)
(* numpy yields (inf, -inf or nan plus a warning, never an exception).     *)
(* Rounding error is not modelled, nor is the sign of zero (a negative     *)
(* zero arises only as a denominator when dfd < 0, where the verdict is    *)
(* False whatever the statistic).  A square root (np.std) is kept as the   *)
(* pair (sign, square).                                                    *)
(***************************************************************************)
EXTENDS Integers, Sequences, FiniteSets, TLC

VARIABLES scorer, fitted, out, data, df, pc, ret

vars == <<scorer, fitted, out, data, df, pc, ret>>

(***************************************************************************)
(* Extended rational arithmetic (numpy float64 semantics)                  *)
(***************************************************************************)
Abs(i) == IF i < 0 THEN -i ELSE i

Sign(i) == IF i < 0 THEN -1 ELSE IF i > 0 THEN 1 ELSE 0

RECURSIVE Gcd(_, _)
Gcd(a, b) == IF b = 0 THEN a ELSE Gcd(b, a % b)

Q(n, d) ==
    IF d = 0 THEN [n |-> Sign(n), d |-> 0]
    ELSE LET g == Gcd(Abs(n), Abs(d))
             s == IF d < 0 THEN -1 ELSE 1
         IN  [n |-> s * Sign(n) * (Abs(n) \div g), d |-> Abs(d) \div g]

F(i) == [n |-> i, d |-> 1]

NaN == [n |-> 0, d |-> 0]

Inf == [n |-> 1, d |-> 0]

IsNaN(a) == a.d = 0 /\ a.n = 0

IsFinite(a) == a.d > 0

FNeg(a) == [n |-> -a.n, d |-> a.d]

FAbs(a) == [n |-> Abs(a.n), d |-> a.d]

FAdd(a, b) ==
    IF a.d = 0 /\ b.d = 0
    THEN (IF a.n = b.n THEN a ELSE NaN)
    ELSE Q(a.n * b.d + b.n * a.d, a.d * b.d)

FSub(a, b) == FAdd(a, FNeg(b))

FMul(a, b) == Q(a.n * b.n, a.d * b.d)

FDiv(a, b) ==
    LET s == IF b.n < 0 THEN -1 ELSE 1
    IN  Q(s * a.n * b.d, s * a.d * b.n)

\* a > b as numpy compares: any comparison with nan is False
FGt(a, b) ==
    /\ ~IsNaN(a)
    /\ ~IsNaN(b)
    /\ IF a.d = 0 /\ b.d = 0 THEN a.n > b.n
       ELSE a.n * b.d > b.n * a.d

\* the square root of a value a >= 0 (or nan), kept as (sign, square)
Sqrt(a) == [s |-> IF a.n > 0 THEN 1 ELSE 0, sq |-> a]

\* a / r for a root r > 0 (or 0, or nan): sign and square of the quotient
DivRoot(a, r) ==
    LET q == FDiv(FMul(a, a), r.sq)
    IN  [s |-> IF q.n = 0 THEN 0 ELSE Sign(a.n), sq |-> q]

\* |t| > threshold for a (sign, square) value t and a threshold >= 0
RootAbsGt(t, threshold) == FGt(t.sq, FMul(threshold, threshold))

(***************************************************************************)
(* numpy statistics over a sequence of values                              *)
(***************************************************************************)
\* an integer column as float64 values
ToF(s) == [i \in 1..Len(s) |-> F(s[i])]

RECURSIVE FSum(_)
FSum(x) == IF x = <<>> THEN F(0) ELSE FAdd(x[1], FSum(Tail(x)))

\* np.mean: sum / count, nan on an empty array (0/0)
Mean(x) == FDiv(FSum(x), F(Len(x)))

\* np.std: population standard deviation sqrt(mean(|x - mean|^2))
Std(x) ==
    LET m == Mean(x)
    IN  Sqrt(Mean([i \in 1..Len(x) |-> FMul(FSub(x[i], m), FSub(x[i], m))]))

RECURSIVE InsertF(_, _)
InsertF(v, s) ==
    IF s = <<>> THEN <<v>>
    ELSE IF FGt(s[1], v) THEN <<v>> \o s
    ELSE <<s[1]>> \o InsertF(v, Tail(s))

RECURSIVE SortF(_)
SortF(x) == IF x = <<>> THEN <<>> ELSE InsertF(x[1], SortF(Tail(x)))

\* np.median: middle of the sorted values, mean of the two middle ones for an
\* even count, nan on an empty array
Median(x) ==
    LET s == SortF(x)
        n == Len(x)
    IN  IF n = 0 THEN NaN
        ELSE IF n % 2 = 1 THEN s[(n + 1) \div 2]
        ELSE FDiv(FAdd(s[n \div 2], s[n \div 2 + 1]), F(2))

(***************************************************************************)
(* is_outlier, ZScore, ModifiedZScore                                      *)
(***************************************************************************)
is_outlier(value, threshold) == FGt(FAbs(value), threshold)

ZScoreDefaultThreshold == F(2)

ModifiedZScoreDefaultThreshold == Q(7, 2)

ZScoreNew == [kind |-> "ZScore", mean |-> F(0), std |-> Sqrt(F(1))]

ZScoreFitAccumulate(self, x) ==
    [self EXCEPT !.mean = FAdd(self.mean, Mean(x)), !.std = Std(x)]

ZScoreFit(self, x) == [self EXCEPT !.mean = Mean(x), !.std = Std(x)]

ZScoreTransform(self, x) == DivRoot(FSub(x, self.mean), self.std)

ZScoreTest(self, x, threshold) == FGt(FAbs(x), threshold)

ModifiedZScoreNew ==
    [kind |-> "ModifiedZScore", k |-> Q(6745, 10000), median |-> F(0), mda |-> F(1)]

ModifiedZScoreFit(self, x) ==
    LET m == Median(x)
    IN  [self EXCEPT !.median = m,
                     !.mda = Median([i \in 1..Len(x) |-> FAbs(FSub(x[i], m))])]

ModifiedZScoreTransform(self, x) ==
    FDiv(FMul(self.k, FSub(x, self.median)), self.mda)

ModifiedZScoreTest(self, x, threshold) == FGt(FAbs(x), threshold)

\* method dispatch on the scorer's class
Fit(self, x) ==
    IF self.kind = "ZScore" THEN ZScoreFit(self, x) ELSE ModifiedZScoreFit(self, x)

Transform(self, x) ==
    IF self.kind = "ZScore" THEN ZScoreTransform(self, x)
    ELSE ModifiedZScoreTransform(self, x)

Test(self, x, threshold) ==
    IF self.kind = "ZScore" THEN ZScoreTest(self, x, threshold)
    ELSE ModifiedZScoreTest(self, x, threshold)

(***************************************************************************)
(* Bounds and inputs of the scorer protocol                                *)
(***************************************************************************)
MaxLen == 2

MaxFits == 2

SampleVals == {1, 10, 50}

Samples == UNION {[1..n -> SampleVals] : n \in 0..MaxLen}

Thresholds == {ZScoreDefaultThreshold, ModifiedZScoreDefaultThreshold}

NoFrame == [err |-> "unset", rows |-> <<>>]

NoCall == [op |-> "none"]

(***************************************************************************)
(* The scorer protocol: one scorer object, calls in any order.  fitted     *)
(* records the number of fit calls so far and the sample of the last one.  *)
(***************************************************************************)
InitScorer ==
    /\ scorer \in {ZScoreNew, ModifiedZScoreNew}
    /\ fitted = [n |-> 0, x |-> <<>>]
    /\ out = [op |-> "new", x |-> F(0), threshold |-> F(0), res |-> "None"]
    /\ data = <<>>
    /\ df = NoFrame
    /\ pc = "scorer"
    /\ ret = NoCall

FrameVars == <<data, df, pc, ret>>

CallFit ==
    \E x \in Samples :
        /\ fitted.n < MaxFits
        /\ scorer' = Fit(scorer, ToF(x))
        /\ fitted' = [n |-> fitted.n + 1, x |-> x]
        /\ out' = [op |-> "fit", x |-> F(0), threshold |-> F(0), res |-> "None"]
        /\ UNCHANGED FrameVars

CallTransform ==
    \E x \in SampleVals :
        /\ out' = [op |-> "transform", x |-> F(x), threshold |-> F(0),
                   res |-> Transform(scorer, F(x))]
        /\ UNCHANGED <<scorer, fitted>>
        /\ UNCHANGED FrameVars

CallTest ==
    \E x \in SampleVals, threshold \in Thresholds :
        /\ out' = [op |-> "test", x |-> F(x), threshold |-> threshold,
                   res |-> Test(scorer, F(x), threshold)]
        /\ UNCHANGED <<scorer, fitted>>
        /\ UNCHANGED FrameVars

CallIsOutlier ==
    \E x \in SampleVals, threshold \in Thresholds :
        /\ out' = [op |-> "is_outlier", x |-> F(x), threshold |-> threshold,
                   res |-> is_outlier(F(x), threshold)]
        /\ UNCHANGED <<scorer, fitted>>
        /\ UNCHANGED FrameVars

NextScorer == CallFit \/ CallTransform \/ CallTest \/ CallIsOutlier

SpecScorer == InitScorer /\ [][NextScorer]_vars

(***************************************************************************)
(* create_dataframe                                                        *)
(*                                                                         *)
(* A result record is a Python dict, modelled as a function whose DOMAIN   *)
(* is the set of keys it has: res['date'] raises KeyError iff "date" is    *)
(* not in DOMAIN res.  The seven metric columns are copied alike; the      *)
(* model carries the one the analysis reads, "rps".                        *)
(***************************************************************************)
HasKeys(res) ==
    /\ "date" \in DOMAIN res
    /\ "values" \in DOMAIN res
    /\ "rps" \in DOMAIN res.values

\* insert v behind every element whose date is <= v.date
RECURSIVE InsertByDate(_, _)
InsertByDate(s, v) ==
    IF s = <<>> THEN <<v>>
    ELSE IF s[1].date > v.date THEN <<v>> \o s
    ELSE <<s[1]>> \o InsertByDate(Tail(s), v)

Unsorted(s) == s

\* sorted(latest_results, key=lambda x: x['date']): Python's sort is stable
RECURSIVE SortedByDate(_)
SortedByDate(s) ==
    IF s = <<>> THEN <<>>
    ELSE InsertByDate(SortedByDate(SubSeq(s, 1, Len(s) - 1)), s[Len(s)])

\* enumerate(...): the rows of one benchmark, norm_date counting from 0
BenchRows(bench) ==
    LET s == SortedByDate(bench.latest_results)
    IN  [i \in 1..Len(s) |->
            [name |-> bench.name, date |-> s[i].date, norm_date |-> i - 1,
             rps |-> s[i].values.rps]]

RECURSIVE AllRows(_)
AllRows(d) == IF d = <<>> THEN <<>> ELSE BenchRows(d[1]) \o AllRows(Tail(d))

\* the data frame, or the KeyError that a record lacking a key raises out of
\* the list comprehension (no frame is built then)
create_dataframe(d) ==
    IF \E b \in 1..Len(d) : \E i \in 1..Len(d[b].latest_results) :
            ~HasKeys(d[b].latest_results[i])
    THEN [err |-> "KeyError", rows |-> <<>>]
    ELSE [err |-> "none", rows |-> AllRows(d)]

(***************************************************************************)
(* Data-frame selections used by the analysis                              *)
(***************************************************************************)
\* df[df['name'] == benchmark]
RowsOf(frame, benchmark) ==
    LET Named(r) == r.name = benchmark IN SelectSeq(frame.rows, Named)

Column(rows, col) == [i \in 1..Len(rows) |-> rows[i][col]]

\* Python slice bound: negative counts from the end, clamped to 0..n
PyBound(i, n) ==
    IF i < 0 THEN (IF n + i < 0 THEN 0 ELSE n + i)
    ELSE IF i > n THEN n ELSE i

\* s[:hi]
SliceTo(s, hi) == SubSeq(s, 1, PyBound(hi, Len(s)))

\* s[lo:]
SliceFrom(s, lo) == SubSeq(s, PyBound(lo, Len(s)) + 1, Len(s))

(***************************************************************************)
(* chow_test                                                               *)
(***************************************************************************)
K == 2

AlphaInv == 200000

RECURSIVE Dot(_, _)
Dot(a, b) == IF a = <<>> THEN 0 ELSE a[1] * b[1] + Dot(Tail(a), Tail(b))

\* sm.OLS(y, x) raises ValueError on an empty sample (np.max of a zero-size
\* array when statsmodels looks for a constant column)
OlsRaises(y, x) == Len(x) = 0

\* sm.OLS(y, x).fit().ssr for a one-column design x without intercept:
\* sum(y^2) - sum(x*y)^2 / sum(x^2); the pseudo-inverse fit of an all-zero
\* column has coefficient 0 and leaves sum(y^2)
OlsSsr(y, x) ==
    LET sxx == Dot(x, x)
        sxy == Dot(x, y)
        syy == Dot(y, y)
    IN  IF sxx = 0 THEN F(syy) ELSE Q(syy * sxx - sxy * sxy, sxx)

\* Natural numbers of any size, as sequences of base-10000 digits with the
\* lowest digit first, for the one comparison whose operands exceed 32 bits
Limb == 10000

RECURSIVE ToBig(_)
ToBig(i) == IF i < Limb THEN <<i>> ELSE <<i % Limb>> \o ToBig(i \div Limb)

RECURSIVE BigAdd(_, _, _)
BigAdd(a, b, carry) ==
    IF a = <<>> /\ b = <<>> THEN (IF carry = 0 THEN <<>> ELSE <<carry>>)
    ELSE LET x == IF a = <<>> THEN 0 ELSE a[1]
             y == IF b = <<>> THEN 0 ELSE b[1]
             ta == IF a = <<>> THEN <<>> ELSE Tail(a)
             tb == IF b = <<>> THEN <<>> ELSE Tail(b)
         IN  <<(x + y + carry) % Limb>> \o BigAdd(ta, tb, (x + y + carry) \div Limb)

RECURSIVE BigScale(_, _, _)
BigScale(a, digit, carry) ==
    IF a = <<>> THEN (IF carry = 0 THEN <<>> ELSE <<carry>>)
    ELSE <<(a[1] * digit + carry) % Limb>>
         \o BigScale(Tail(a), digit, (a[1] * digit + carry) \div Limb)

RECURSIVE BigMul(_, _)
BigMul(a, b) ==
    IF b = <<>> THEN <<>>
    ELSE BigAdd(BigScale(a, b[1], 0), <<0>> \o BigMul(a, Tail(b)), 0)

RECURSIVE BigPow(_, _)
BigPow(a, e) == IF e = 0 THEN <<1>> ELSE BigMul(a, BigPow(a, e - 1))

RECURSIVE Trim(_)
Trim(a) ==
    IF a = <<>> \/ a[Len(a)] # 0 THEN a ELSE Trim(SubSeq(a, 1, Len(a) - 1))

RECURSIVE DigitsGt(_, _)
DigitsGt(a, b) ==
    IF a = <<>> THEN FALSE
    ELSE IF a[Len(a)] # b[Len(b)] THEN a[Len(a)] > b[Len(b)]
    ELSE DigitsGt(SubSeq(a, 1, Len(a) - 1), SubSeq(b, 1, Len(b) - 1))

BigGt(a, b) ==
    LET x == Trim(a)
        y == Trim(b)
    IN  IF Len(x) # Len(y) THEN Len(x) > Len(y) ELSE DigitsGt(x, y)

\* r^e > AlphaInv^2 for a rational r > 0
PowExceeds(r, e) ==
    BigGt(BigPow(ToBig(r.n), e),
          BigMul(BigMul(ToBig(AlphaInv), ToBig(AlphaInv)), BigPow(ToBig(r.d), e)))

\* chow > f.ppf(q=1-alpha, dfn=2, dfd).  scipy returns nan for dfd <= 0, and
\* a comparison with nan is False.  For dfn = 2 the F distribution has the
\* survival function (1 + 2x/dfd)^(-dfd/2), so x exceeds the (1-alpha)
\* quantile iff (1 + 2x/dfd)^dfd > (1/alpha)^2.
ExceedsFQuantile(chow, dfd) ==
    IF dfd <= 0 \/ IsNaN(chow) THEN FALSE
    ELSE IF chow.d = 0 THEN chow.n > 0
    ELSE IF chow.n <= 0 THEN FALSE
    ELSE PowExceeds(FAdd(F(1), FDiv(FMul(F(2), chow), F(dfd))), dfd)

AfterFromPivot(s, day) == SliceFrom(s, day)

\* y[day + 1:], x[day + 1:]
AfterPivot(s, day) == SliceFrom(s, day + 1)

\* dfd = len(x) - 2 * k
Dfd(n) == n - 2 * K

NoChow(err) ==
    [err |-> err, dfd |-> 0, before |-> <<>>, after |-> <<>>,
     ssr_total |-> NaN, ssr_before |-> NaN, ssr_after |-> NaN,
     chow |-> NaN, res |-> FALSE]

\* chow_test(x, y, day) with the default alpha and k: the locals at return,
\* or the exception an OLS call raises.  before and after are the slices of
\* x handed to the second and third regression.
chow_test(x, y, day) ==
    LET dfn == K
        dfd == Dfd(Len(x))
        xb == SliceTo(x, day)
        yb == SliceTo(y, day)
        xa == AfterPivot(x, day)
        ya == AfterPivot(y, day)
    IN  IF OlsRaises(y, x) \/ OlsRaises(yb, xb) \/ OlsRaises(ya, xa)
        THEN NoChow("ValueError")
        ELSE LET ssr_total == OlsSsr(y, x)
                 ssr_before == OlsSsr(yb, xb)
                 ssr_after == OlsSsr(ya, xa)
                 numerator ==
                     FDiv(FSub(ssr_total, FAdd(ssr_before, ssr_after)), F(dfn))
                 denominator == FDiv(FAdd(ssr_before, ssr_after), F(dfd))
                 chow == FDiv(numerator, denominator)
             IN  [err |-> "none", dfd |-> dfd, before |-> xb, after |-> xa,
                  ssr_total |-> ssr_total, ssr_before |-> ssr_before,
                  ssr_after |-> ssr_after, chow |-> chow,
                  res |-> ExceedsFQuantile(chow, dfd)]

(***************************************************************************)
(* check_last_run, sequence_chow_test                                      *)
(***************************************************************************)
\* y[-1] raises IndexError on an empty column (after fit(y[:-1]) has run on
\* an empty array); otherwise the verdict of scorer.test(y[-1])
check_last_run(frame, benchmark) ==
    LET y == Column(RowsOf(frame, benchmark), "rps")
        fit == ModifiedZScoreFit(ModifiedZScoreNew, ToF(SliceTo(y, -1)))
    IN  IF Len(y) = 0
        THEN [err |-> "IndexError", scorer |-> fit, res |-> FALSE]
        ELSE [err |-> "none", scorer |-> fit,
              res |-> ModifiedZScoreTest(fit, F(y[Len(y)]),
                                         ModifiedZScoreDefaultThreshold)]

DefaultLeft == 19

DefaultRight == 36

PivotIndex(rows, pivot) == pivot

\* df[(df['name'] == benchmark) & (df['norm_date'] == pivot)]['date'].values[0]
\* for a pivot that has a row
PivotDate(rows, pivot) ==
    LET AtPivot(r) == r.norm_date = pivot
    IN  SelectSeq(rows, AtPivot)[1].date

\* the loop body from pivot up to right: result is the list built so far,
\* tested the pivots handed to chow_test so far
RECURSIVE ScanFrom(_, _, _, _, _, _)
ScanFrom(rows, pivot, right, result, tested, verdicts) ==
    IF pivot >= right
    THEN [err |-> "none", res |-> result, tested |-> tested, verdicts |-> verdicts]
    ELSE LET c == chow_test(Column(rows, "norm_date"), Column(rows, "rps"), pivot)
             AtPivot(r) == r.norm_date = pivot
         IN  IF c.err # "none"
             THEN [err |-> c.err, res |-> <<>>, tested |-> Append(tested, pivot),
                   verdicts |-> verdicts]
             ELSE IF ~c.res
             THEN ScanFrom(rows, pivot + 1, right, result, Append(tested, pivot),
                           Append(verdicts, FALSE))
             ELSE IF SelectSeq(rows, AtPivot) = <<>>
             THEN [err |-> "IndexError", res |-> <<>>,
                   tested |-> Append(tested, pivot),
                   verdicts |-> Append(verdicts, TRUE)]
             ELSE ScanFrom(rows, pivot + 1, right, Append(result, PivotDate(rows, pivot)),
                           Append(tested, pivot), Append(verdicts, TRUE))

sequence_chow_test(frame, benchmark, left, right) ==
    ScanFrom(RowsOf(frame, benchmark), left, right, <<>>, <<>>, <<>>)

(***************************************************************************)
(* Inputs                                                                  *)
(***************************************************************************)
MaxDate == 2

MaxRecs == 4

MaxN == 5

Dates == 1..MaxDate

Benchmarks == {"a", "b"}

\* what the i-th record of a raw result list can be, by kind: kind d > 0 is
\* well formed with date d (its rps value is its position in the list, which
\* identifies it in the output), kind 0 lacks 'date', kind -d has date d and
\* lacks 'values'
Kinds == -MaxDate..MaxDate

RawRecord(i, kind) ==
    IF kind > 0 THEN [date |-> kind, values |-> [rps |-> i]]
    ELSE IF kind = 0 THEN [values |-> [rps |-> i]]
    ELSE [date |-> -kind]

RawList(kinds) == [i \in 1..Len(kinds) |-> RawRecord(i, kinds[i])]

Bench(name, results) == [name |-> name, latest_results |-> results]

AnalyseVals == {0, 4}

\* the query of load_performance_tests returns each result list newest
\* first (sort doc.date desc); equal dates can occur
NewestFirst(n) ==
    {ds \in [1..n -> Dates] : \A i \in 1..n - 1 : ds[i] >= ds[i + 1]}

Series(n) ==
    {[i \in 1..n |-> [date |-> ds[i], values |-> [rps |-> vs[i]]]] :
        ds \in NewestFirst(n), vs \in [1..n -> AnalyseVals]}

\* a column of values as a result list, newest first, one record per day
Daily(vals) ==
    [i \in 1..Len(vals) |->
        [date |-> Len(vals) + 1 - i, values |-> [rps |-> vals[Len(vals) + 1 - i]]]]

\* reference samples of the recency check with the run under test last
Examples ==
    {<<50>>,
     <<10, 10, 10, 10, 10, 50>>,
     <<10, 11, 9, 10, 12, 9, 11, 10, 1000>>,
     <<10, 11, 9, 10, 12, 9, 11, 10, 10>>}

\* the benchmarks the break detector is called on, and the pivots and
\* windows it is called with
ChowBenchmarks == {"a"}

Pivots == -2..MaxN + 1

Windows ==
    {<<l, r>> \in (-1..MaxN) \X (-1..MaxN + 1) : l <= r}
    \cup {<<DefaultLeft, DefaultRight>>}

(***************************************************************************)
(* The pipeline of main(): build the frame, then one analysis call on it   *)
(***************************************************************************)
ScorerVars == <<scorer, fitted, out>>

InitPipeline(input) ==
    /\ data = input
    /\ df = NoFrame
    /\ pc = "loaded"
    /\ ret = NoCall
    /\ scorer = ModifiedZScoreNew
    /\ fitted = [n |-> 0, x |-> <<>>]
    /\ out = [op |-> "new", x |-> F(0), threshold |-> F(0), res |-> "None"]

CreateDataframe ==
    /\ pc = "loaded"
    /\ df' = create_dataframe(data)
    /\ pc' = IF df'.err = "none" THEN "framed" ELSE "failed"
    /\ UNCHANGED <<data, ret>>
    /\ UNCHANGED ScorerVars

CallCheckLastRun ==
    /\ pc = "framed"
    /\ \E benchmark \in Benchmarks \cup {"none"} :
        ret' = [op |-> "check_last_run", benchmark |-> benchmark,
                r |-> check_last_run(df, benchmark)]
    /\ pc' = "returned"
    /\ UNCHANGED <<data, df>>
    /\ UNCHANGED ScorerVars

CallChowTest ==
    /\ pc = "framed"
    /\ \E benchmark \in ChowBenchmarks, day \in Pivots :
        LET rows == RowsOf(df, benchmark)
        IN  ret' = [op |-> "chow_test", benchmark |-> benchmark, day |-> day,
                    r |-> chow_test(Column(rows, "norm_date"),
                                    Column(rows, "rps"), day)]
    /\ pc' = "returned"
    /\ UNCHANGED <<data, df>>
    /\ UNCHANGED ScorerVars

CallSequenceChowTest ==
    /\ pc = "framed"
    /\ \E benchmark \in ChowBenchmarks, w \in Windows :
        ret' = [op |-> "sequence_chow_test", benchmark |-> benchmark,
                left |-> w[1], right |-> w[2],
                r |-> sequence_chow_test(df, benchmark, w[1], w[2])]
    /\ pc' = "returned"
    /\ UNCHANGED <<data, df>>
    /\ UNCHANGED ScorerVars

\* two benchmarks with at most MaxRecs records between them, in any order
InitBuild ==
    \E na, nb \in 0..MaxRecs :
        /\ na + nb <= MaxRecs
        /\ \E ka \in [1..na -> Kinds], kb \in [1..nb -> Kinds] :
              InitPipeline(<<Bench("a", RawList(ka)), Bench("b", RawList(kb))>>)

SpecBuild == InitBuild /\ [][CreateDataframe]_vars

\* benchmark a with at most MaxN observations beside a one-run benchmark b,
\* or benchmark b with one of the examples beside a fixed benchmark a
InitAnalyse ==
    \/ \E n \in 0..MaxN : \E ra \in Series(n) :
          InitPipeline(<<Bench("a", ra), Bench("b", Daily(<<50>>))>>)
    \/ \E e \in Examples :
          InitPipeline(<<Bench("a", Daily(<<0, 4, 0, 4, 4>>)), Bench("b", Daily(e))>>)

NextAnalyse ==
    CreateDataframe \/ CallCheckLastRun \/ CallChowTest \/ CallSequenceChowTest

SpecAnalyse == InitAnalyse /\ [][NextAnalyse]_vars

(***************************************************************************)
(* Properties                                                              *)
(***************************************************************************)
\* |t| > threshold for a value returned by Transform(self, _)
AbsScoreGt(self, t, threshold) ==
    IF self.kind = "ZScore" THEN RootAbsGt(t, threshold)
    ELSE FGt(FAbs(t), threshold)

\* the score is an ordinary number (neither nan nor infinite)
ScoreFinite(self, t) ==
    IF self.kind = "ZScore" THEN IsFinite(t.sq) ELSE IsFinite(t)

ScoreZero(self, t) ==
    IF self.kind = "ZScore" THEN t.sq = F(0) ELSE t = F(0)

Location(self) == IF self.kind = "ZScore" THEN self.mean ELSE self.median

\* the median-based score of value against a reference sample, as the
\* documentation of the recency check states it
MadOf(reference) ==
    LET med == Median(reference)
    IN  Median([i \in 1..Len(reference) |-> FAbs(FSub(reference[i], med))])

ModifiedScore(reference, value) ==
    FDiv(FMul(Q(6745, 10000), FSub(value, Median(reference))), MadOf(reference))

\* the analysed column of the benchmark named in ret, oldest first
RetRows == RowsOf(df, ret.benchmark)

RetY == Column(RetRows, "rps")

RetPrior == ToF(SubSeq(RetY, 1, Len(RetY) - 1))

RetLast == F(RetY[Len(RetY)])

\* C1: after fit(reference), test(value, threshold) is true iff
\* |transform(value)| > threshold, for both scorer variants (stated where the
\* score of the value is an ordinary number).
C1_TestThresholdsTheScore ==
    (/\ out.op = "test"
     /\ fitted.n > 0
     /\ ScoreFinite(scorer, Transform(scorer, out.x)))
    => (out.res <=> AbsScoreGt(scorer, Transform(scorer, out.x), out.threshold))

\* C2: check_last_run returns the median-based verdict of the newest
\* observation against all earlier ones: true iff
\* |0.6745 * (last - median(prior)) / MAD(prior)| > 3.5 (stated where
\* MAD(prior) is neither zero nor nan).
C2_CheckLastRunIsMedianVerdict ==
    (/\ ret.op = "check_last_run"
     /\ ret.r.err = "none"
     /\ IsFinite(MadOf(RetPrior))
     /\ MadOf(RetPrior) # F(0))
    => /\ \A i \in 1..Len(RetRows) : RetRows[i].date <= RetRows[Len(RetRows)].date
       /\ ret.r.res <=> FGt(FAbs(ModifiedScore(RetPrior, RetLast)), Q(7, 2))

\* C3: with a constant reference sample (scale exactly 0) the point is
\* reported as not an outlier; check_last_run on prior values
\* [10,10,10,10,10] and last value 50 does not return true.
C3_ConstantReferenceIsNoOutlier ==
    (/\ ret.op = "check_last_run"
     /\ ret.r.err = "none"
     /\ Len(RetPrior) > 0
     /\ MadOf(RetPrior) = F(0))
    => ret.r.res = FALSE

\* C4: a record lacking 'date' or 'values' is left out of the frame, and
\* every well-formed record of every benchmark still appears in it.
C4_WellFormedRecordsKept ==
    pc # "loaded"
    => \A b \in 1..Len(data) : \A i \in 1..Len(data[b].latest_results) :
          LET res == data[b].latest_results[i]
          IN  HasKeys(res)
              => \E j \in 1..Len(df.rows) :
                    /\ df.rows[j].name = data[b].name
                    /\ df.rows[j].date = res.date
                    /\ df.rows[j].rps = res.values.rps

\* C5: chow_test produces no verdict when N - 2k is not positive; it fails
\* (stated for the pivots that are indices of the series).
C5_NoVerdictWithoutDegreesOfFreedom ==
    (/\ ret.op = "chow_test"
     /\ ret.day \in 0..Len(RetRows) - 1
     /\ Len(RetRows) - 2 * K <= 0)
    => ret.r.err # "none"

\* the rows of a benchmark of the input are numbered 0..N-1 in timestamp
\* order, records of equal timestamp in their order of arrival (a record's
\* rps value is its position in the input list)
NumberedInOrder(bench) ==
    LET rows == RowsOf(df, bench.name)
        n == Len(bench.latest_results)
    IN  /\ Len(rows) = n
        /\ {rows[i].norm_date : i \in 1..n} = 0..n - 1
        /\ \A i \in 1..n :
              /\ rows[i].rps \in 1..n
              /\ bench.latest_results[rows[i].rps].date = rows[i].date
        /\ \A i, j \in 1..n :
              /\ rows[i].date < rows[j].date
                    => rows[i].norm_date < rows[j].norm_date
              /\ (rows[i].date = rows[j].date /\ rows[i].rps < rows[j].rps)
                    => rows[i].norm_date < rows[j].norm_date

\* C6: for every benchmark of the input, in whatever order its records
\* arrive, norm_date is exactly 0..N-1, follows the timestamps, keeps the
\* arrival order of equal timestamps, and restarts at 0 for each benchmark.
C6_NormDateEnumeratesByTimestamp ==
    pc = "framed" => \A b \in 1..Len(data) : NumberedInOrder(data[b])

C6_Witness ==
    /\ pc = "framed"
    /\ \E b \in 1..Len(data) :
          LET l == data[b].latest_results
          IN  /\ Len(l) = 3
              /\ l[1].date > l[2].date
              /\ l[1].date = l[3].date
    /\ \A b \in 1..Len(data) : Len(data[b].latest_results) > 0

\* the pivots of the window, in order
WindowPivots(left, right) == [i \in 1..right - left |-> left + i - 1]

RetX == Column(RetRows, "norm_date")

\* the pivots of the window that chow_test flags, in order
Flagged(left, right) ==
    LET IsBreak(p) == chow_test(RetX, RetY, p).res
    IN  SelectSeq(WindowPivots(left, right), IsBreak)

DateAt(pivot) ==
    LET AtPivot(r) == r.norm_date = pivot
    IN  SelectSeq(RetRows, AtPivot)[1].date

\* C7 as claimed: the returned list is in ascending timestamp order without
\* a duplicate timestamp, holds the timestamps of the flagged pivots of
\* [left, right), and every pivot of the window is tested exactly once.
C7_AscendingWithoutDuplicates ==
    (ret.op = "sequence_chow_test" /\ ret.r.err = "none")
    => /\ \A i, j \in 1..Len(ret.r.res) : i < j => ret.r.res[i] < ret.r.res[j]
       /\ ret.r.tested = WindowPivots(ret.left, ret.right)
       /\ Len(ret.r.res) = Len(Flagged(ret.left, ret.right))
       /\ \A i \in 1..Len(ret.r.res) :
             ret.r.res[i] = DateAt(Flagged(ret.left, ret.right)[i])

\* C7 amended: a returned list holds one timestamp per flagged pivot of
\* [left, right), in pivot order, hence in non-decreasing timestamp order
\* (a timestamp repeats when two flagged observations carry it), each the
\* timestamp and not the index of its pivot, and every pivot of the window
\* is tested exactly once.
C7_OneTimestampPerFlaggedPivot ==
    (ret.op = "sequence_chow_test" /\ ret.r.err = "none")
    => /\ \A i, j \in 1..Len(ret.r.res) : i < j => ret.r.res[i] <= ret.r.res[j]
       /\ ret.r.tested = WindowPivots(ret.left, ret.right)
       /\ Len(ret.r.res) = Len(Flagged(ret.left, ret.right))
       /\ \A i \in 1..Len(ret.r.res) :
             ret.r.res[i] = DateAt(Flagged(ret.left, ret.right)[i])

C7_Witness ==
    /\ ret.op = "sequence_chow_test"
    /\ ret.r.err = "none"
    /\ Len(ret.r.res) = 2
    /\ ret.r.res[1] = ret.r.res[2]
    /\ ret.right - ret.left > 2

\* C8: transform and test leave the stored location and scale unchanged,
\* and a fit overwrites them: at any time they are those of the last fitted
\* sample alone (the initial ones before any fit), and a transform result
\* is computed from that sample alone.
C8_StateIsThatOfTheLastFit ==
    LET x == ToF(fitted.x)
    IN  /\ fitted.n = 0 => scorer \in {ZScoreNew, ModifiedZScoreNew}
        /\ (fitted.n > 0 /\ scorer.kind = "ZScore")
              => /\ scorer.mean = Mean(x)
                 /\ scorer.std = Std(x)
                 /\ out.op = "transform"
                       => out.res = DivRoot(FSub(out.x, Mean(x)), Std(x))
        /\ (fitted.n > 0 /\ scorer.kind = "ModifiedZScore")
              => /\ scorer.median = Median(x)
                 /\ scorer.mda = MadOf(x)
                 /\ scorer.k = Q(6745, 10000)
                 /\ out.op = "transform" => out.res = ModifiedScore(x, out.x)

C8_Witness ==
    /\ fitted.n = 2
    /\ out.op = "transform"
    /\ ScoreFinite(scorer, out.res)
    /\ ~ScoreZero(scorer, out.res)
    /\ Location(scorer) # F(0)

\* the observations with index lo..hi (0-based) of a column
Span(col, lo, hi) == [i \in 1..hi - lo + 1 |-> col[lo + i]]

\* C9: for a pivot index day of a series of N points, the total regression
\* uses all N observations, the 'before' regression those of index [0, day),
\* the 'after' regression those of index (day, N-1], the pivot is in neither,
\* and the statistic is ((SSR_total - (SSR_before + SSR_after)) / k) /
\* ((SSR_before + SSR_after) / (N - 2k)), N counting the pivot.
C9_SegmentsAndStatistic ==
    (/\ ret.op = "chow_test"
     /\ ret.r.err = "none"
     /\ ret.day \in 0..Len(RetY) - 1)
    => LET n == Len(RetY)
           total == OlsSsr(RetY, RetX)
           before == OlsSsr(Span(RetY, 0, ret.day - 1), Span(RetX, 0, ret.day - 1))
           after == OlsSsr(Span(RetY, ret.day + 1, n - 1),
                           Span(RetX, ret.day + 1, n - 1))
       IN  /\ ret.r.before = [i \in 1..ret.day |-> i - 1]
           /\ ret.r.after = [i \in 1..n - 1 - ret.day |-> ret.day + i]
           /\ ret.r.ssr_total = total
           /\ ret.r.ssr_before = before
           /\ ret.r.ssr_after = after
           /\ ret.r.chow =
                 FDiv(FDiv(FSub(total, FAdd(before, after)), F(K)),
                      FDiv(FAdd(before, after), F(n - 2 * K)))

C9_Witness ==
    /\ ret.op = "chow_test"
    /\ ret.r.err = "none"
    /\ ret.day \in 1..Len(RetY) - 2
    /\ IsFinite(ret.r.chow)
    /\ ret.r.chow.n > 0
    /\ ret.r.ssr_before.n > 0
    /\ ret.r.ssr_after.n > 0

\* C10: sequence_chow_test computes no verdict for a pivot that is 0, the
\* last index or outside the series, nor for a pivot whose 'before' or
\* 'after' segment has k or fewer observations (stated for the windows
\* that start at a non-negative pivot).
C10_NoVerdictOnShortSegments ==
    (ret.op = "sequence_chow_test" /\ ret.left >= 0)
    => \A i \in 1..Len(ret.r.verdicts) :
          LET pivot == ret.r.tested[i]
              n == Len(RetY)
          IN  /\ pivot \in 1..n - 2
              /\ pivot > K
              /\ n - 1 - pivot > K

====
